---- MODULE Spec2Model ----
(***************************************************************************)
(* Model of ping_monitor.py: the PingStatistics ledger (add_result,        *)
(* get_stats_for_window), PingMonitor.ping_once, the PingMonitor.run loop, *)
(* the signal handler and main().                                          *)
(*                                                                         *)
(* Time is counted in integer milliseconds (the source uses float seconds; *)
(* PING_INTERVAL is already in milliseconds).  The clock is monotonic.     *)
(* An Optional value is None == <<>> or Some(v) == <<v>>.  A float is the  *)
(* exact ratio [num, den] of the decimal it was read from or of the        *)
(* integers the source computes it from (the rounding of doubles is not    *)
(* modelled), or inf, -inf or nan, which have den = 0; a standard          *)
(* deviation is carried as the ratio under its square root.  TLC's         *)
(* integers bound the magnitudes that can be computed with.                *)
(* Text is a sequence of one-character strings; the characters are ASCII.  *)
(***************************************************************************)
EXTENDS Integers, Sequences, FiniteSets, TLC

VARIABLES
    env,                \* os.environ: TARGET_HOST set?, PING_INTERVAL text
    pc,                 \* position of the main thread
    status,             \* how the process ended ("alive" while it runs)
    now,                \* the clock, time.time(), in ms
    interval_ms,        \* PingMonitor interval (interval_seconds * 1000)
    handlers,           \* signal handlers installed
    results,            \* PingStatistics.results (deque, head first)
    running,            \* PingStatistics.running
    timestamp,          \* ping_once: local timestamp of the probe in flight
    result,             \* run: local result returned by ping_once
    last_display_time,  \* run: local
    current_time,       \* run: local
    shown,              \* display_status: stats_10s, stats_1m, stats_5m
    add_time,           \* history: clock value read by the last add_result
    appended,           \* history: every outcome ever passed to add_result
    nStarted,           \* history: probes started
    raised_on,          \* history: the subprocess.run outcome ping_once raised on
    displays,           \* history: number of display_status calls
    gap,                \* history: time between the last two displays
    nDelays             \* history: scheduling delays taken so far

vars == << env, pc, status, now, interval_ms, handlers, results, running,
           timestamp, result, last_display_time, current_time, shown,
           add_time, appended, nStarted, raised_on, displays, gap, nDelays >>

(***************************************************************************)
(* Bounds of the model.                                                    *)
(***************************************************************************)
MaxProbes == 3          \* probes started in one behaviour
MaxDelays == 1          \* scheduling delays in one behaviour
StartTime == 1000000    \* clock value when the process starts
MaxLedger == 7          \* outcomes appended in one behaviour of StatsSpec
MaxMeasured == 3        \* of these, outcomes that carry an rtt
MaxSpread == 4          \* outcomes appended in one behaviour of WindowSpec

\* Time that may pass, beyond the probe and the sleep, before the clock read
\* of add_result and before the clock reads of display_status (the process
\* is descheduled or suspended).
Delays == {11000, 300000}

\* Duration of a ping subprocess that ends by itself.
ProbeDurations == {10}

(***************************************************************************)
(* Program constants.                                                      *)
(***************************************************************************)
MsPerSec == 1000                \* interval_ms / 1000.0
HorizonSeconds == 300           \* time.time() - 300
DisplayIntervalSeconds == 1     \* display_interval = 1.0
SubprocessTimeoutSeconds == 2   \* timeout=2
DefaultIntervalMs == 100        \* os.environ.get('PING_INTERVAL', 100)
FullLoss == 100                 \* 'packet_loss': 100.0
Windows == {10, 60, 300}        \* display_status

(***************************************************************************)
(* Optional values and floats.                                             *)
(***************************************************************************)
None == << >>
Some(v) == << v >>

Abs(n) == IF n < 0 THEN 0 - n ELSE n

RECURSIVE GCD(_, _)
GCD(a, b) == IF b = 0 THEN a ELSE GCD(b, a % b)

\* n / d as a float, d > 0: kept in lowest terms, the sign on the numerator,
\* so that equal values are equal records.
Ratio(n, d) ==
    LET g == GCD(Abs(n), d) IN [num |-> n \div g, den |-> d \div g]

\* float('inf'), float('-inf'), float('nan').
Inf == [num |-> 1, den |-> 0]
NegInf == [num |-> 0 - 1, den |-> 0]
NaN == [num |-> 0, den |-> 0]

IsFinite(x) == x.den > 0
IsNaN(x) == x.den = 0 /\ x.num = 0

\* x + y
FAdd(x, y) ==
    IF IsFinite(x) /\ IsFinite(y)
    THEN Ratio(x.num * y.den + y.num * x.den, x.den * y.den)
    ELSE IF IsNaN(x) \/ IsNaN(y) THEN NaN
    ELSE IF IsFinite(x) THEN y
    ELSE IF IsFinite(y) THEN x
    ELSE IF x = y THEN x ELSE NaN

\* x * y, for finite x and y
FMul(x, y) == Ratio(x.num * y.num, x.den * y.den)

\* x < y: false whenever one side is nan.
FLess(x, y) ==
    IF IsNaN(x) \/ IsNaN(y) THEN FALSE
    ELSE IF x.den = 0 /\ y.den = 0 THEN x.num < y.num
    ELSE IF x.den = 0 THEN x.num < 0
    ELSE IF y.den = 0 THEN y.num > 0
    ELSE x.num * y.den < y.num * x.den

\* The sum of a list of floats.
RECURSIVE SumSeq(_)
SumSeq(s) == IF s = << >> THEN Ratio(0, 1) ELSE FAdd(Head(s), SumSeq(Tail(s)))

\* statistics.mean(s): the exact sum divided by n; the sum of the
\* non-finite values when there is one.
mean(s) ==
    LET total == SumSeq(s)
    IN  IF IsFinite(total) THEN Ratio(total.num, total.den * Len(s)) ELSE total

\* min(s): the first value is replaced by each later one that is < it.
RECURSIVE MinFrom(_, _)
MinFrom(m, s) ==
    IF s = << >> THEN m
    ELSE MinFrom(IF FLess(Head(s), m) THEN Head(s) ELSE m, Tail(s))

MinSeq(s) == MinFrom(Head(s), Tail(s))

\* max(s): the first value is replaced by each later one that is > it.
RECURSIVE MaxFrom(_, _)
MaxFrom(m, s) ==
    IF s = << >> THEN m
    ELSE MaxFrom(IF FLess(m, Head(s)) THEN Head(s) ELSE m, Tail(s))

MaxSeq(s) == MaxFrom(Head(s), Tail(s))

(***************************************************************************)
(* PingResult and PingStatistics.                                          *)
(***************************************************************************)
PingResult(ts, rtt, success) ==
    [timestamp |-> ts, rtt |-> rtt, success |-> success]

\* while self.results and self.results[0].timestamp < cutoff_time: popleft()
RECURSIVE Evict(_, _)
Evict(q, cutoff_time) ==
    IF q # << >> /\ Head(q).timestamp < cutoff_time
    THEN Evict(Tail(q), cutoff_time)
    ELSE q

\* A plausible slip: the eviction loop stops after one popleft.
add_result_EvictOne(q, r, t) ==
    LET a == Append(q, r)
    IN  IF Head(a).timestamp < t - HorizonSeconds * MsPerSec THEN Tail(a) ELSE a

\* A plausible slip: an expired head empties the whole ledger.
add_result_ClearOnExpiry(q, r, t) ==
    LET a == Append(q, r)
    IN  IF Head(a).timestamp < t - HorizonSeconds * MsPerSec THEN << >> ELSE a

\* PingStatistics.add_result with time.time() = t.
add_result(q, r, t) ==
    Evict(Append(q, r), t - HorizonSeconds * MsPerSec)

\* A plausible slip: the window filter is dropped.
window_results_NoFilter(q, window_seconds, t) == q

\* A plausible slip: the comparison with the cutoff is turned round.
window_results_Reversed(q, window_seconds, t) ==
    LET cutoff_time == t - window_seconds * MsPerSec
        InWindow(r) == r.timestamp <= cutoff_time
    IN  SelectSeq(q, InWindow)

\* [r for r in self.results if r.timestamp >= cutoff_time]
window_results(q, window_seconds, t) ==
    LET cutoff_time == t - window_seconds * MsPerSec
        InWindow(r) == r.timestamp >= cutoff_time
    IN  SelectSeq(q, InWindow)

\* [r for r in window_results if r.success and r.rtt is not None]
successful_results(w) ==
    LET Ok(r) == r.success /\ r.rtt # None
    IN  SelectSeq(w, Ok)

\* lost_packets = total_packets - len(successful_results)
lost_packets_ByFlag(w) ==
    LET Failed(r) == ~r.success
    IN  Len(SelectSeq(w, Failed))

lost_packets(w) == Len(w) - Len(successful_results(w))

\* The result for an empty window.
NoDataStats ==
    [rtt_avg |-> None, rtt_min |-> None, rtt_max |-> None, jitter |-> None,
     packet_loss |-> None, total_packets |-> 0]

\* A plausible slip: a window without a successful result reports no data.
AllLostStats_AsNoData(total_packets) == NoDataStats

\* The result for a window without a successful result.
AllLostStats(total_packets) ==
    [rtt_avg |-> None, rtt_min |-> None, rtt_max |-> None, jitter |-> None,
     packet_loss |-> Some(Ratio(FullLoss, 1)), total_packets |-> total_packets]

\* The squares of a list of finite floats.
Squares(rtts) == [i \in 1..Len(rtts) |-> FMul(rtts[i], rtts[i])]

\* (n * sum(x^2) - sum(x)^2) / d, which is sum((x - mean)^2) * n / d.
Spread(rtts, d) ==
    LET n  == Len(rtts)
        s1 == SumSeq(rtts)
        s2 == SumSeq(Squares(rtts))
    IN  FMul(FAdd(FMul(Ratio(n, 1), s2), FMul(Ratio(0 - 1, 1), FMul(s1, s1))),
             Ratio(1, d))

\* A plausible slip: the population deviation (divisor n) is taken.
stdev_Population(rtts) ==
    [sqrt_of |-> Spread(rtts, Len(rtts) * Len(rtts))]

\* statistics.stdev(rtts), len(rtts) > 1, every rtt finite: the square root
\* of sum((x - mean)^2) / (n - 1).
stdev(rtts) ==
    [sqrt_of |-> Spread(rtts, Len(rtts) * (Len(rtts) - 1))]

\* statistics.stdev raises on data with an inf or a nan (CPython 3.11: the
\* sum of squares is then a float, and its numerator is asked for).
stdev_raises(rtts) ==
    Len(rtts) > 1 /\ \E i \in 1..Len(rtts) : ~IsFinite(rtts[i])

\* What get_stats_for_window gives when an exception leaves it.
StatsRaised(e) == [raised |-> e]

\* A plausible slip: the mean is taken over every outcome of the window.
MeasuredStats_AvgOverAll(w) ==
    LET successful == successful_results(w)
        rtts == [i \in 1..Len(successful) |-> successful[i].rtt[1]]
        total == SumSeq(rtts)
    IN  [rtt_avg |-> Some(Ratio(total.num, total.den * Len(w))),
         rtt_min |-> Some(MinSeq(rtts)),
         rtt_max |-> Some(MaxSeq(rtts)),
         jitter  |-> Some(IF Len(rtts) > 1 THEN stdev(rtts)
                          ELSE [sqrt_of |-> Ratio(0, 1)]),
         packet_loss |-> Some(Ratio(lost_packets(w) * 100, Len(w))),
         total_packets |-> Len(w)]

\* A plausible slip: a single sample has no jitter value.
MeasuredStats_JitterAbsentForOne(w) ==
    LET successful == successful_results(w)
        rtts == [i \in 1..Len(successful) |-> successful[i].rtt[1]]
    IN  [rtt_avg |-> Some(mean(rtts)),
         rtt_min |-> Some(MinSeq(rtts)),
         rtt_max |-> Some(MaxSeq(rtts)),
         jitter  |-> IF Len(rtts) > 1 THEN Some(stdev(rtts)) ELSE None,
         packet_loss |-> Some(Ratio(lost_packets(w) * 100, Len(w))),
         total_packets |-> Len(w)]

\* A plausible slip: the share of the successful results is reported as loss.
MeasuredStats_LossInverted(w) ==
    LET successful == successful_results(w)
        rtts == [i \in 1..Len(successful) |-> successful[i].rtt[1]]
    IN  [rtt_avg |-> Some(mean(rtts)),
         rtt_min |-> Some(MinSeq(rtts)),
         rtt_max |-> Some(MaxSeq(rtts)),
         jitter  |-> Some(IF Len(rtts) > 1 THEN stdev(rtts)
                          ELSE [sqrt_of |-> Ratio(0, 1)]),
         packet_loss |-> Some(Ratio(Len(successful) * 100, Len(w))),
         total_packets |-> Len(w)]

\* The result for a window w with at least one successful result.
MeasuredStats(w) ==
    LET successful == successful_results(w)
        rtts == [i \in 1..Len(successful) |-> successful[i].rtt[1]]
    IN  IF stdev_raises(rtts) THEN StatsRaised("AttributeError")
        ELSE
        [rtt_avg |-> Some(mean(rtts)),
         rtt_min |-> Some(MinSeq(rtts)),
         rtt_max |-> Some(MaxSeq(rtts)),
         jitter  |-> Some(IF Len(rtts) > 1 THEN stdev(rtts)
                          ELSE [sqrt_of |-> Ratio(0, 1)]),
         packet_loss |-> Some(Ratio(lost_packets(w) * 100, Len(w))),
         total_packets |-> Len(w)]

\* A plausible slip: the empty window is not told apart.
stats_of_window_NoEmptyCase(w) ==
    IF successful_results(w) = << >> THEN AllLostStats(Len(w))
    ELSE MeasuredStats(w)

\* get_stats_for_window after the window has been selected.
stats_of_window(w) ==
    IF w = << >> THEN NoDataStats
    ELSE IF successful_results(w) = << >> THEN AllLostStats(Len(w))
    ELSE MeasuredStats(w)

\* PingStatistics.get_stats_for_window with time.time() = t.
get_stats_for_window(q, window_seconds, t) ==
    stats_of_window(window_results(q, window_seconds, t))

(***************************************************************************)
(* Text: str.split(sep), str.split(), str.strip(), float(), int().         *)
(***************************************************************************)
Digits == {"0", "1", "2", "3", "4", "5", "6", "7", "8", "9"}

\* The control characters '\x0b' (vertical tab) and '\x1c' to '\x1f' (the
\* file, group, record and unit separators), which have no escape.
VT == ""
FS == ""
GS == ""
RS == ""
US == ""

\* The ASCII whitespace that float() and int() ignore around a number.
Whitespace == {" ", "\t", "\n", VT, "\f", "\r"}

\* The ASCII characters at which str.split() separates (str.isspace).
SplitWhitespace == Whitespace \cup {FS, GS, RS, US}

DigitValue(c) ==
    CASE c = "0" -> 0 [] c = "1" -> 1 [] c = "2" -> 2 [] c = "3" -> 3
      [] c = "4" -> 4 [] c = "5" -> 5 [] c = "6" -> 6 [] c = "7" -> 7
      [] c = "8" -> 8 [] c = "9" -> 9

\* The first position at which sep occurs in s, 0 when it does not.
Find(s, sep) ==
    LET at == {i \in 1..(Len(s) - Len(sep) + 1) :
                   SubSeq(s, i, i + Len(sep) - 1) = sep}
    IN  IF at = {} THEN 0 ELSE CHOOSE i \in at : \A j \in at : i <= j

\* s.split(sep): the pieces between the occurrences of sep, from the left,
\* empty pieces kept.
RECURSIVE SplitOn(_, _)
SplitOn(s, sep) ==
    LET k == Find(s, sep)
    IN  IF k = 0 THEN << s >>
        ELSE << SubSeq(s, 1, k - 1) >>
                 \o SplitOn(SubSeq(s, k + Len(sep), Len(s)), sep)

\* s.split(): the maximal runs of non-whitespace characters.
RECURSIVE Tokens(_)
Tokens(s) ==
    IF s = << >> THEN << >>
    ELSE IF Head(s) \in SplitWhitespace THEN Tokens(Tail(s))
    ELSE LET ends == {i \in 1..Len(s) : s[i] \in SplitWhitespace}
             k == IF ends = {} THEN Len(s) + 1
                  ELSE CHOOSE i \in ends : \A j \in ends : i <= j
         IN  << SubSeq(s, 1, k - 1) >> \o Tokens(SubSeq(s, k, Len(s)))

\* s without the whitespace that float() and int() ignore at its two ends.
RECURSIVE Strip(_)
Strip(s) ==
    IF s = << >> THEN s
    ELSE IF Head(s) \in Whitespace THEN Strip(Tail(s))
    ELSE IF s[Len(s)] \in Whitespace THEN Strip(SubSeq(s, 1, Len(s) - 1))
    ELSE s

\* The letters of inf, infinity, nan and the exponent mark, in lower case.
Lower(c) ==
    CASE c = "A" -> "a" [] c = "E" -> "e" [] c = "F" -> "f" [] c = "I" -> "i"
      [] c = "N" -> "n" [] c = "T" -> "t" [] c = "Y" -> "y" [] OTHER -> c

LowerSeq(s) == [i \in 1..Len(s) |-> Lower(s[i])]

RECURSIVE DecimalValue(_)
DecimalValue(s) ==
    IF s = << >> THEN 0
    ELSE 10 * DecimalValue(SubSeq(s, 1, Len(s) - 1)) + DigitValue(s[Len(s)])

\* Digits with single underscores between them.
IsDigitPart(s) ==
    /\ s # << >>
    /\ s[1] \in Digits
    /\ s[Len(s)] \in Digits
    /\ \A i \in 1..Len(s) : s[i] \in Digits \cup {"_"}
    /\ \A i \in 1..(Len(s) - 1) : ~(s[i] = "_" /\ s[i + 1] = "_")

\* The digits of a digit part.
DigitsOf(s) == LET IsDigit(c) == c \in Digits IN SelectSeq(s, IsDigit)

HasSign(s) == s # << >> /\ Head(s) \in {"+", "-"}
Unsigned(s) == IF HasSign(s) THEN Tail(s) ELSE s
Sign(s) == IF s # << >> /\ Head(s) = "-" THEN 0 - 1 ELSE 1

RECURSIVE Pow10(_)
Pow10(k) == IF k = 0 THEN 1 ELSE 10 * Pow10(k - 1)

\* A decimal number without its sign: digits, with a point and an exponent
\* if any.
IsNumber(u) ==
    LET ps == SplitOn(u, << "e" >>)
        ms == SplitOn(ps[1], << "." >>)
    IN  /\ Len(ps) <= 2
        /\ Len(ps) = 2 => IsDigitPart(Unsigned(ps[2]))
        /\ Len(ms) <= 2
        /\ IF Len(ms) = 1 THEN IsDigitPart(ms[1])
           ELSE /\ ms[1] = << >> \/ IsDigitPart(ms[1])
                /\ ms[2] = << >> \/ IsDigitPart(ms[2])
                /\ ms[1] # << >> \/ ms[2] # << >>

NumberValue(u) ==
    LET ps == SplitOn(u, << "e" >>)
        ms == SplitOn(ps[1], << "." >>)
        fraction == IF Len(ms) = 2 THEN DigitsOf(ms[2]) ELSE << >>
        n == DecimalValue(DigitsOf(ms[1]) \o fraction)
        e == IF Len(ps) = 2
             THEN Sign(ps[2]) * DecimalValue(DigitsOf(Unsigned(ps[2])))
             ELSE 0
        k == e - Len(fraction)
    IN  IF k >= 0 THEN Ratio(n * Pow10(k), 1) ELSE Ratio(n, Pow10(0 - k))

Infinities == { << "i", "n", "f" >>,
                << "i", "n", "f", "i", "n", "i", "t", "y" >> }

\* The text of a float without surrounding whitespace and sign, lower case.
FloatBody(tok) == LowerSeq(Unsigned(Strip(tok)))

\* float(tok) raises ValueError unless tok is a decimal number, an infinity
\* or nan, signed or not, with whitespace around it or not.
IsFloat(tok) ==
    LET u == FloatBody(tok)
    IN  u \in Infinities \/ u = << "n", "a", "n" >> \/ IsNumber(u)

ToFloat(tok) ==
    LET u == FloatBody(tok)
        sign == Sign(Strip(tok))
    IN  IF u \in Infinities THEN (IF sign < 0 THEN NegInf ELSE Inf)
        ELSE IF u = << "n", "a", "n" >> THEN NaN
        ELSE LET v == NumberValue(u) IN Ratio(sign * v.num, v.den)

\* int(text) raises ValueError unless text is a run of digits, signed or
\* not, with whitespace around it or not.
IsInt(s) == IsDigitPart(Unsigned(Strip(s)))
ToInt(s) == Sign(Strip(s)) * DecimalValue(DigitsOf(Unsigned(Strip(s))))

(***************************************************************************)
(* PingMonitor.ping_once.  run is what subprocess.run did:                 *)
(*   [kind |-> "completed", returncode, stdout]   it returned              *)
(*   [kind |-> "TimeoutExpired"], [kind |-> "SubprocessError"],            *)
(*   [kind |-> "OSError"]                          it raised               *)
(* The value is [raised, value]: the exception that leaves ping_once       *)
(* ("none" when it returns) and the PingResult returned.                   *)
(***************************************************************************)
Returned(r) == [raised |-> "none", value |-> r]
Raised(e) == [raised |-> e, value |-> None]

TimeEq == << "t", "i", "m", "e", "=" >>     \* 'time='
Newline == << "\n" >>                       \* '\n'

\* for line in output_lines: if 'time=' in line: ... return
RECURSIVE parse_lines(_, _)
parse_lines(ts, lines) ==
    IF lines = << >> THEN
        \* If we can't parse RTT but ping succeeded
        Returned(PingResult(ts, None, TRUE))
    ELSE IF Find(Head(lines), TimeEq) # 0 THEN
        LET after == SplitOn(Head(lines), TimeEq)[2]
            parts == Tokens(after)
        IN  IF parts = << >> THEN Raised("IndexError")
            ELSE IF ~IsFloat(parts[1]) THEN
                \* except ValueError
                Returned(PingResult(ts, None, FALSE))
            ELSE Returned(PingResult(ts, Some(ToFloat(parts[1])), TRUE))
    ELSE parse_lines(ts, Tail(lines))

\* A plausible slip: the output is parsed before the exit code is looked at.
ping_once_ExitCodeAfterParse(ts, run) ==
    IF run.kind \in {"TimeoutExpired", "SubprocessError"} THEN
        Returned(PingResult(ts, None, FALSE))
    ELSE IF run.kind = "OSError" THEN Raised("OSError")
    ELSE
        LET p == parse_lines(ts, SplitOn(run.stdout, Newline))
        IN  IF p.raised # "none" THEN p
            ELSE Returned(PingResult(ts, p.value.rtt,
                                     p.value.success /\ run.returncode = 0))

\* run is what subprocess.run did; run.stdout is result.stdout, the text
\* after the newline translation of text=True, so it holds no '\r'.
ping_once(ts, run) ==
    IF run.kind \in {"TimeoutExpired", "SubprocessError"} THEN
        Returned(PingResult(ts, None, FALSE))
    ELSE IF run.kind = "OSError" THEN Raised("OSError")
    ELSE IF run.returncode = 0 THEN
        parse_lines(ts, SplitOn(run.stdout, Newline))
    ELSE Returned(PingResult(ts, None, FALSE))

(***************************************************************************)
(* Inputs.                                                                 *)
(***************************************************************************)
\* Texts of the PING_INTERVAL environment variable.
IntervalTexts == { << "x" >>, << "-", "5" >> }

Environments ==
    [TARGET_HOST : BOOLEAN,
     PING_INTERVAL : {None} \cup {Some(t) : t \in IntervalTexts}]

\* Standard outputs of a ping subprocess.
StdoutSamples ==
    { \* 'b time=5 ms\n'
      << "b", " " >> \o TimeEq \o << "5", " ", "m", "s", "\n" >>,
      \* 'P\nb time=1.5 ms\n'
      << "P", "\n", "b", " " >> \o TimeEq \o << "1", ".", "5", " ", "m", "s", "\n" >>,
      \* 'P\n': no 'time='
      << "P", "\n" >>,
      \* 'b time=ms\n'
      << "b", " " >> \o TimeEq \o << "m", "s", "\n" >>,
      \* 'b time= \ntime=5'
      << "b", " " >> \o TimeEq \o << " ", "\n" >> \o TimeEq \o << "5" >> }

RunOutcomes ==
    [kind : {"completed"}, returncode : {0, 1}, stdout : StdoutSamples]
        \cup { [kind |-> k] : k \in {"TimeoutExpired", "SubprocessError", "OSError"} }

\* Time a subprocess.run call takes.
RunDurations(run) ==
    IF run.kind = "TimeoutExpired" THEN {SubprocessTimeoutSeconds * MsPerSec}
    ELSE ProbeDurations

LoopPcs == {"loop", "ping", "subprocess", "add", "check_display",
            "stats_10s", "stats_1m", "stats_5m", "sleep"}

(***************************************************************************)
(* The state before main() runs.                                           *)
(***************************************************************************)
Init ==
    /\ env \in Environments
    /\ pc = "main"
    /\ status = "alive"
    /\ now = StartTime
    /\ interval_ms = 0
    /\ handlers = FALSE
    /\ results = << >>
    /\ running = TRUE
    /\ timestamp = 0
    /\ result = None
    /\ last_display_time = 0
    /\ current_time = 0
    /\ shown = << >>
    /\ add_time = 0
    /\ appended = << >>
    /\ nStarted = 0
    /\ raised_on = None
    /\ displays = 0
    /\ gap = 0
    /\ nDelays = 0

\* The clock is read after a delay d: none, or one of Delays.
ReadClock(d) ==
    /\ d = 0 \/ nDelays < MaxDelays
    /\ now' = now + d
    /\ nDelays' = IF d = 0 THEN nDelays ELSE nDelays + 1

Exit(how) == pc' = "exited" /\ status' = how

(***************************************************************************)
(* main(), PingMonitor.__init__ and the head of run().                     *)
(***************************************************************************)
Main ==
    /\ pc = "main"
    /\ IF ~env.TARGET_HOST THEN
           Exit("SystemExit(1)") /\ UNCHANGED interval_ms
       ELSE IF env.PING_INTERVAL = None THEN
           pc' = "init" /\ interval_ms' = DefaultIntervalMs /\ UNCHANGED status
       ELSE IF ~IsInt(env.PING_INTERVAL[1]) THEN
           Exit("ValueError in int") /\ UNCHANGED interval_ms
       ELSE
           pc' = "init" /\ interval_ms' = ToInt(env.PING_INTERVAL[1])
                        /\ UNCHANGED status
    /\ UNCHANGED << env, now, handlers, results, running, timestamp, result,
                    last_display_time, current_time, shown, add_time,
                    appended, nStarted, raised_on, displays, gap, nDelays >>

Construct ==
    /\ pc = "init"
    /\ results' = << >>
    /\ running' = TRUE
    /\ handlers' = TRUE
    /\ pc' = "run"
    /\ UNCHANGED << env, status, now, interval_ms, timestamp, result,
                    last_display_time, current_time, shown, add_time,
                    appended, nStarted, raised_on, displays, gap, nDelays >>

\* A plausible slip: the display clock starts at the current time.
RunStart_DisplayClockFromNow ==
    /\ pc = "run"
    /\ last_display_time' = now
    /\ pc' = "loop"
    /\ UNCHANGED << env, status, now, interval_ms, handlers, results, running,
                    timestamp, result, current_time, shown, add_time,
                    appended, nStarted, raised_on, displays, gap, nDelays >>

RunStart ==
    /\ pc = "run"
    /\ last_display_time' = 0
    /\ pc' = "loop"
    /\ UNCHANGED << env, status, now, interval_ms, handlers, results, running,
                    timestamp, result, current_time, shown, add_time,
                    appended, nStarted, raised_on, displays, gap, nDelays >>

(***************************************************************************)
(* PingMonitor.signal_handler.                                             *)
(***************************************************************************)
\* A plausible slip: the handler only clears the flag (no sys.exit).
signal_handler_FlagOnly ==
    /\ running' = FALSE
    /\ UNCHANGED << pc, status >>

\* self.stats.running = False; sys.exit(0): SystemExit unwinds the main
\* thread from wherever it is; nothing on the way catches it.
signal_handler ==
    /\ running' = FALSE
    /\ Exit("SystemExit(0)")

Signal ==
    /\ handlers
    /\ pc \in LoopPcs \cup {"run"}
    /\ running
    /\ signal_handler
    /\ UNCHANGED << env, now, interval_ms, handlers, results, timestamp,
                    result, last_display_time, current_time, shown, add_time,
                    appended, nStarted, raised_on, displays, gap, nDelays >>

(***************************************************************************)
(* PingMonitor.run: one action per step of the loop body.                  *)
(***************************************************************************)
LoopCheck ==
    /\ pc = "loop"
    /\ IF running THEN pc' = "ping" /\ UNCHANGED status
       ELSE Exit("returned")
    /\ UNCHANGED << env, now, interval_ms, handlers, results, running,
                    timestamp, result, last_display_time, current_time, shown,
                    add_time, appended, nStarted, raised_on, displays, gap,
                    nDelays >>

\* ping_once: timestamp = time.time(), then subprocess.run is started.
PingStart ==
    /\ pc = "ping"
    /\ nStarted < MaxProbes
    /\ timestamp' = now
    /\ nStarted' = nStarted + 1
    /\ pc' = "subprocess"
    /\ UNCHANGED << env, status, now, interval_ms, handlers, results, running,
                    result, last_display_time, current_time, shown, add_time,
                    appended, raised_on, displays, gap, nDelays >>

\* subprocess.run returns or raises, and ping_once runs to its end.
SubprocessDone ==
    /\ pc = "subprocess"
    /\ \E run \in RunOutcomes : \E d \in RunDurations(run) :
        LET o == ping_once(timestamp, run)
        IN  /\ now' = now + d
            /\ raised_on' = IF o.raised = "none" THEN None ELSE Some(run)
            /\ IF o.raised = "none"
               THEN pc' = "add" /\ result' = Some(o.value) /\ UNCHANGED status
               ELSE Exit(o.raised) /\ UNCHANGED result
    /\ UNCHANGED << env, interval_ms, handlers, results, running, timestamp,
                    last_display_time, current_time, shown, add_time,
                    appended, nStarted, displays, gap, nDelays >>

\* self.stats.add_result(result)
AddResult ==
    /\ pc = "add"
    /\ \E d \in {0} \cup Delays : ReadClock(d)
    /\ results' = add_result(results, result[1], now')
    /\ add_time' = now'
    /\ appended' = Append(appended, result[1])
    /\ pc' = "check_display"
    /\ UNCHANGED << env, status, interval_ms, handlers, running, timestamp,
                    result, last_display_time, current_time, shown, raised_on,
                    nStarted, displays, gap >>

\* A plausible slip: the display is refreshed in every iteration.
display_due_Always(current, last) == TRUE

\* if current_time - last_display_time >= display_interval
display_due(current, last) ==
    current - last >= DisplayIntervalSeconds * MsPerSec

\* current_time = time.time(); if current_time - last_display_time >= 1.0
CheckDisplay ==
    /\ pc = "check_display"
    /\ current_time' = now
    /\ IF display_due(now, last_display_time)
       THEN /\ pc' = "stats_10s"
            /\ displays' = displays + 1
            /\ gap' = IF displays = 0 THEN 0 ELSE now - last_display_time
       ELSE /\ pc' = "sleep"
            /\ UNCHANGED << displays, gap >>
    /\ UNCHANGED << env, status, now, interval_ms, handlers, results, running,
                    timestamp, result, last_display_time, shown, add_time,
                    appended, nStarted, raised_on, nDelays >>

\* A plausible slip: the selected window is stored back as the ledger.
Query_FilterInPlace(at, window_seconds, next) ==
    /\ pc = at
    /\ \E d \in (IF at = "stats_10s" THEN {0} \cup Delays ELSE {0}) : ReadClock(d)
    /\ shown' = (IF at = "stats_10s" THEN << >> ELSE shown) \o
                << [window |-> window_seconds, at |-> now',
                    stats |-> get_stats_for_window(results, window_seconds, now')] >>
    /\ results' = window_results(results, window_seconds, now')
    /\ running' = running
    /\ pc' = next
    /\ status' = status

\* display_status: one get_stats_for_window call; it only reads the ledger.
\* An exception that leaves it leaves run() and main() too.
Query(at, window_seconds, next) ==
    /\ pc = at
    /\ \E d \in (IF at = "stats_10s" THEN {0} \cup Delays ELSE {0}) : ReadClock(d)
    /\ LET stats == get_stats_for_window(results, window_seconds, now')
       IN  IF "raised" \in DOMAIN stats
           THEN Exit(stats.raised) /\ UNCHANGED shown
           ELSE /\ shown' = (IF at = "stats_10s" THEN << >> ELSE shown) \o
                            << [window |-> window_seconds, at |-> now',
                                stats |-> stats] >>
                /\ pc' = next
                /\ status' = status
    /\ results' = results
    /\ running' = running

Stats10s ==
    /\ Query("stats_10s", 10, "stats_1m")
    /\ UNCHANGED << env, interval_ms, handlers, timestamp, result,
                    last_display_time, current_time, add_time, appended,
                    nStarted, raised_on, displays, gap >>

Stats1m ==
    /\ Query("stats_1m", 60, "stats_5m")
    /\ UNCHANGED << env, interval_ms, handlers, timestamp, result,
                    last_display_time, current_time, add_time, appended,
                    nStarted, raised_on, displays, gap >>

\* The last query; display_status returns; last_display_time = current_time.
Stats5m ==
    /\ Query("stats_5m", 300, "sleep")
    /\ last_display_time' = IF pc' = "sleep" THEN current_time
                            ELSE last_display_time
    /\ UNCHANGED << env, interval_ms, handlers, timestamp, result,
                    current_time, add_time, appended, nStarted, raised_on,
                    displays, gap >>

\* time.sleep(self.interval_seconds): ValueError for a negative length.
Sleep ==
    /\ pc = "sleep"
    /\ IF interval_ms < 0
       THEN Exit("ValueError in sleep") /\ UNCHANGED now
       ELSE pc' = "loop" /\ now' = now + interval_ms /\ UNCHANGED status
    /\ UNCHANGED << env, interval_ms, handlers, results, running, timestamp,
                    result, last_display_time, current_time, shown, add_time,
                    appended, nStarted, raised_on, displays, gap, nDelays >>

Next ==
    \/ Main
    \/ Construct
    \/ RunStart
    \/ Signal
    \/ LoopCheck
    \/ PingStart
    \/ SubprocessDone
    \/ AddResult
    \/ CheckDisplay
    \/ Stats10s
    \/ Stats1m
    \/ Stats5m
    \/ Sleep

Spec == Init /\ [][Next]_vars

(***************************************************************************)
(* PingStatistics on its own: a ledger fed one outcome a second, failed or *)
(* successful with an rtt, and queried for the three windows at any point. *)
(***************************************************************************)
\* Round-trip times of the successful outcomes.
RttSamples ==
    {Ratio(5, 1), Ratio(10, 1), Ratio(15, 1), Ratio(20, 1), Ratio(30, 1),
     Ratio(0 - 5, 2), Inf}

\* Time between two outcomes.
StatsSteps == {1000}

StatsOutcomes ==
    {[rtt |-> None, success |-> FALSE]}
        \cup {[rtt |-> Some(v), success |-> TRUE] : v \in RttSamples}

StatsInit ==
    /\ env = [TARGET_HOST |-> TRUE, PING_INTERVAL |-> None]
    /\ pc = "ledger"
    /\ status = "alive"
    /\ now = StartTime
    /\ interval_ms = DefaultIntervalMs
    /\ handlers = FALSE
    /\ results = << >>
    /\ running = TRUE
    /\ timestamp = 0
    /\ result = None
    /\ last_display_time = 0
    /\ current_time = 0
    /\ shown = << >>
    /\ add_time = 0
    /\ appended = << >>
    /\ nStarted = 0
    /\ raised_on = None
    /\ displays = 0
    /\ gap = 0
    /\ nDelays = 0

\* One outcome is stamped with the clock and passed to add_result.
StatsAppend ==
    /\ pc = "ledger"
    /\ Len(appended) < MaxLedger
    /\ \E o \in StatsOutcomes : \E d \in StatsSteps :
        LET r == PingResult(now + d, o.rtt, o.success)
        IN  /\ o.success =>
                Len(successful_results(appended)) < MaxMeasured
            /\ now' = now + d
            /\ results' = add_result(results, r, now + d)
            /\ add_time' = now + d
            /\ appended' = Append(appended, r)
    /\ UNCHANGED << env, pc, status, interval_ms, handlers, running, timestamp,
                    result, last_display_time, current_time, shown, nStarted,
                    raised_on, displays, gap, nDelays >>

\* The three queries of display_status, all at the same clock value.
StatsQuery ==
    /\ pc = "ledger"
    /\ shown' = << [window |-> 10, at |-> now,
                    stats |-> get_stats_for_window(results, 10, now)],
                   [window |-> 60, at |-> now,
                    stats |-> get_stats_for_window(results, 60, now)],
                   [window |-> 300, at |-> now,
                    stats |-> get_stats_for_window(results, 300, now)] >>
    /\ displays' = displays + 1
    /\ pc' = "queried"
    /\ UNCHANGED << env, status, now, interval_ms, handlers, results, running,
                    timestamp, result, last_display_time, current_time,
                    add_time, appended, nStarted, raised_on, gap, nDelays >>

StatsNext ==
    \/ StatsAppend
    \/ StatsQuery

StatsSpec == StatsInit /\ [][StatsNext]_vars

(***************************************************************************)
(* PingStatistics with outcomes that arrive at uneven times, so that the   *)
(* three windows of one query hold different parts of the ledger.          *)
(***************************************************************************)
\* Time between two outcomes.
WindowSteps == {1000, 11000, 61000, 301000}

WindowOutcomes ==
    {[rtt |-> None, success |-> FALSE],
     [rtt |-> Some(Ratio(10, 1)), success |-> TRUE]}

WindowAppend ==
    /\ pc = "ledger"
    /\ Len(appended) < MaxSpread
    /\ \E o \in WindowOutcomes : \E d \in WindowSteps :
        LET r == PingResult(now + d, o.rtt, o.success)
        IN  /\ now' = now + d
            /\ results' = add_result(results, r, now + d)
            /\ add_time' = now + d
            /\ appended' = Append(appended, r)
    /\ UNCHANGED << env, pc, status, interval_ms, handlers, running, timestamp,
                    result, last_display_time, current_time, shown, nStarted,
                    raised_on, displays, gap, nDelays >>

WindowNext ==
    \/ WindowAppend
    \/ StatsQuery

WindowSpec == StatsInit /\ [][WindowNext]_vars

(***************************************************************************)
(* Properties.                                                             *)
(***************************************************************************)
Horizon == HorizonSeconds * MsPerSec

\* The entries of the ledger inside the window of window_seconds ending at t.
InWindow(window_seconds, t) ==
    {i \in 1..Len(results) : results[i].timestamp >= t - window_seconds * MsPerSec}

RttFieldsAbsent(st) ==
    st.rtt_avg = None /\ st.rtt_min = None /\ st.rtt_max = None /\ st.jitter = None

\* Window lengths of at most 300 seconds.
QueryWindows == Windows \cup {1, 299}

\* C1: after add_result has returned, every entry held in the ledger has
\* timestamp >= now - 300 s, now being the clock value that call read.
C1_RetainedWithinHorizon ==
    appended # << >> =>
        \A i \in 1..Len(results) : results[i].timestamp >= add_time - Horizon

\* add_result has just returned, it evicted entries and kept others.
C1_Witness ==
    /\ pc = "check_display"
    /\ results # << >>
    /\ Len(results) < Len(appended)
    /\ appended[1].timestamp < add_time - Horizon

\* C2: for a window of at most 300 s, get_stats_for_window counts no entry
\* older than the query-time clock minus 300 s, whatever the ledger holds.
C2_NoExpiredEntryCounted ==
    \A w \in QueryWindows :
        LET counted == window_results(results, w, now)
        IN  /\ \A i \in 1..Len(counted) : counted[i].timestamp >= now - Horizon
            /\ get_stats_for_window(results, w, now).total_packets
                   <= Cardinality(InWindow(HorizonSeconds, now))

\* The 300 s query of a display ran on a ledger that still held an entry
\* aged past the horizon, and did not count it.
C2_Witness ==
    /\ pc = "sleep"
    /\ Len(shown) = 3
    /\ \E i \in 1..Len(results) : results[i].timestamp < shown[3].at - Horizon
    /\ shown[3].stats.total_packets < Len(results)

\* C3 as stated: an outcome with success = true and no rtt inside the window
\* is not lost: packet_loss is the share of the outcomes with success = false.
C3_SuccessWithoutRttNotLost ==
    \A w \in Windows :
        LET idx == InWindow(w, now)
            st  == get_stats_for_window(results, w, now)
        IN  idx # {} =>
                st.packet_loss =
                    Some(Ratio(100 * Cardinality({i \in idx : ~results[i].success}),
                               Cardinality(idx)))

\* C3 amended: an outcome with success = true and no rtt inside the window
\* adds to total_packets and is counted as lost: packet_loss is the share of
\* the outcomes that are not (success with an rtt), and a window holding only
\* success-without-rtt outcomes reports 100% loss.
C3_SuccessWithoutRttIsLost ==
    \A w \in Windows :
        LET idx == InWindow(w, now)
            st  == get_stats_for_window(results, w, now)
            measured == {i \in idx : results[i].success /\ results[i].rtt # None}
        IN  idx # {} =>
                /\ st.total_packets = Cardinality(idx)
                /\ st.packet_loss =
                       Some(Ratio(100 * (Cardinality(idx) - Cardinality(measured)),
                                  Cardinality(idx)))
                /\ (\A i \in idx : results[i].success /\ results[i].rtt = None)
                       => st.packet_loss = Some(Ratio(100, 1))

\* A display whose 300 s window held a measured outcome and a
\* success-without-rtt outcome, and nothing else.
C3_Witness ==
    /\ pc = "sleep"
    /\ Len(shown) = 3
    /\ Len(results) = 2
    /\ \A i \in 1..2 : results[i].success
    /\ \E i \in 1..2 : results[i].rtt = None
    /\ \E i \in 1..2 : results[i].rtt # None
    /\ shown[3].stats.total_packets = 2
    /\ shown[3].stats.packet_loss = Some(Ratio(50, 1))

\* C4 as stated: a signal does not preempt a probe: when the process has
\* ended on a signal, every probe that was started has had its outcome
\* appended to the ledger.
C4_SignalLetsProbeComplete ==
    status = "SystemExit(0)" => Len(appended) = nStarted

\* C5: once the signal has been handled, running stays false, no probe is
\* started, no outcome is appended, and the loop has ended.
C5_StoppedIsFinal ==
    /\ [][~running => /\ ~running'
                      /\ nStarted' = nStarted
                      /\ appended' = appended
                      /\ results' = results]_vars
    /\ [](~running => pc = "exited")

\* A signal was handled while a probe was in flight.
C5_Witness ==
    /\ ~running
    /\ status = "SystemExit(0)"
    /\ nStarted = Len(appended) + 1

\* C6 as stated: with a positive interval and no delay other than the probe
\* and the sleep, two consecutive displays are at most 1 s apart.
C6_DisplayEverySecond ==
    (displays >= 2 /\ nDelays = 0 /\ interval_ms > 0)
        => gap <= DisplayIntervalSeconds * MsPerSec

\* C7 as stated: with a PING_INTERVAL <= 0 no probe is ever started, no
\* outcome is appended, and nothing fails at runtime inside the loop.
C7_NonPositiveIntervalRejected ==
    (/\ env.TARGET_HOST
     /\ env.PING_INTERVAL # None
     /\ IsInt(env.PING_INTERVAL[1])
     /\ ToInt(env.PING_INTERVAL[1]) <= 0)
        => /\ nStarted = 0
           /\ appended = << >>
           /\ status # "ValueError in sleep"

\* C8 as stated: no probe-level failure (the subprocess completed with any
\* exit code and output, timed out, or failed with a SubprocessError) leaves
\* ping_once as an error.
C8_ProbeFailureNeverRaises ==
    raised_on # None =>
        raised_on[1].kind \notin {"completed", "TimeoutExpired", "SubprocessError"}

\* C9: packet_loss is absent iff the window holds no outcome, and then
\* total_packets = 0 and the rtt fields are absent.
C9_LossAbsentIffEmptyWindow ==
    \A w \in Windows :
        LET idx == InWindow(w, now)
            st  == get_stats_for_window(results, w, now)
        IN  /\ (st.packet_loss = None) <=> (idx = {})
            /\ idx = {} => (st.total_packets = 0 /\ RttFieldsAbsent(st))
            /\ st.packet_loss = Some(Ratio(100, 1)) => idx # {}

\* A display whose 10 s window was empty while the 60 s window reported
\* 100% loss.
C9_Witness ==
    /\ pc = "sleep"
    /\ Len(shown) = 3
    /\ shown[1].stats.packet_loss = None
    /\ shown[1].stats.total_packets = 0
    /\ shown[2].stats.packet_loss = Some(Ratio(100, 1))

\* C10: a window of n >= 1 outcomes, all with success = false, reports
\* packet_loss = 100, total_packets = n and no rtt field.
C10_AllFailedWindow ==
    \A w \in Windows :
        LET idx == InWindow(w, now)
            st  == get_stats_for_window(results, w, now)
        IN  (idx # {} /\ \A i \in idx : ~results[i].success) =>
                /\ st.packet_loss = Some(Ratio(100, 1))
                /\ st.total_packets = Cardinality(idx)
                /\ RttFieldsAbsent(st)

\* A display whose 300 s window held two outcomes, both failed.
C10_Witness ==
    /\ pc = "sleep"
    /\ Len(shown) = 3
    /\ Len(results) >= 2
    /\ \A i \in 1..Len(results) : ~results[i].success
    /\ shown[3].stats.total_packets = Len(results)
    /\ shown[3].stats.packet_loss = Some(Ratio(100, 1))

\* The entries among idx that are successful and carry an rtt.
Measured(idx) == {i \in idx : results[i].success /\ results[i].rtt # None}

\* The sum of the rtts of the ledger entries S.
RECURSIVE SumRtt(_)
SumRtt(S) ==
    IF S = {} THEN Ratio(0, 1)
    ELSE LET i == CHOOSE j \in S : TRUE
         IN  FAdd(results[i].rtt[1], SumRtt(S \ {i}))

\* The rtts of the ledger entries S are numbers (no inf, no nan).
FiniteRtts(S) == \A i \in S : IsFinite(results[i].rtt[1])

\* n * x, for an integer n
Times(n, x) == FMul(Ratio(n, 1), x)

\* The sum over the ledger entries S of (n * rtt - total)^2, which is n^2
\* times the sum of the squared deviations from the mean total / n.
RECURSIVE SumSqDev(_, _, _)
SumSqDev(S, n, total) ==
    IF S = {} THEN Ratio(0, 1)
    ELSE LET i == CHOOSE j \in S : TRUE
             d == FAdd(Times(n, results[i].rtt[1]), Times(0 - 1, total))
         IN  FAdd(FMul(d, d), SumSqDev(S \ {i}, n, total))

\* The rtts of the successful entries of the ledger, in ledger order.
MeasuredRtts ==
    LET ok == successful_results(results)
    IN  [i \in 1..Len(ok) |-> ok[i].rtt[1]]

\* C11: in a window with a successful outcome carrying an rtt, total_packets
\* counts every outcome, packet_loss is the share of the outcomes that are
\* not successful with an rtt, and rtt_avg, rtt_min, rtt_max are the mean and
\* the extrema of the successful rtts alone (the rtts being numbers).
C11_MixedWindow ==
    pc = "queried" => \A k \in 1..Len(shown) :
        LET idx == InWindow(shown[k].window, shown[k].at)
            m   == Measured(idx)
            st  == shown[k].stats
        IN  (m # {} /\ FiniteRtts(m)) =>
                /\ st.total_packets = Cardinality(idx)
                /\ st.packet_loss =
                       Some(Ratio(100 * (Cardinality(idx) - Cardinality(m)),
                                  Cardinality(idx)))
                /\ st.rtt_avg # None
                /\ Times(Cardinality(m), st.rtt_avg[1]) = SumRtt(m)
                /\ st.rtt_min # None
                /\ \E i \in m : results[i].rtt[1] = st.rtt_min[1]
                /\ \A i \in m : ~FLess(results[i].rtt[1], st.rtt_min[1])
                /\ st.rtt_max # None
                /\ \E i \in m : results[i].rtt[1] = st.rtt_max[1]
                /\ \A i \in m : ~FLess(st.rtt_max[1], results[i].rtt[1])

\* A query of 7 outcomes, 3 of them successful with rtts 5, 15, 10: loss
\* 400/7 percent, mean 10, minimum 5, maximum 15.
C11_Witness ==
    /\ pc = "queried"
    /\ Len(results) = 7
    /\ MeasuredRtts = << Ratio(5, 1), Ratio(15, 1), Ratio(10, 1) >>
    /\ shown[3].stats.total_packets = 7
    /\ shown[3].stats.packet_loss = Some([num |-> 400, den |-> 7])
    /\ shown[3].stats.rtt_avg = Some([num |-> 10, den |-> 1])
    /\ shown[3].stats.rtt_min = Some([num |-> 5, den |-> 1])
    /\ shown[3].stats.rtt_max = Some([num |-> 15, den |-> 1])

\* C12: a window of exactly one outcome, successful with rtt r, reports
\* rtt_avg = rtt_min = rtt_max = r, jitter 0, packet_loss 0, total_packets 1.
C12_SingleSample ==
    pc = "queried" => \A k \in 1..Len(shown) :
        LET idx == InWindow(shown[k].window, shown[k].at)
            st  == shown[k].stats
        IN  (Cardinality(idx) = 1 /\ Measured(idx) = idx) =>
                LET r == results[CHOOSE i \in idx : TRUE].rtt[1]
                IN  /\ st.rtt_avg = Some(r)
                    /\ st.rtt_min = Some(r)
                    /\ st.rtt_max = Some(r)
                    /\ st.jitter = Some([sqrt_of |-> [num |-> 0, den |-> 1]])
                    /\ st.packet_loss = Some([num |-> 0, den |-> 1])
                    /\ st.total_packets = 1

\* A query of a ledger holding one successful outcome with rtt 20.
C12_Witness ==
    /\ pc = "queried"
    /\ Len(results) = 1
    /\ MeasuredRtts = << Ratio(20, 1) >>
    /\ shown[1].stats.rtt_avg = Some([num |-> 20, den |-> 1])
    /\ shown[1].stats.jitter = Some([sqrt_of |-> [num |-> 0, den |-> 1]])

\* C13: over n >= 2 successful rtts, all numbers, the jitter is the sample
\* standard deviation: jitter^2 * (n - 1) is the sum of the squared
\* deviations from the mean, and this is not the population value unless
\* all rtts are equal.
C13_SampleDeviation ==
    pc = "queried" => \A k \in 1..Len(shown) :
        LET idx == InWindow(shown[k].window, shown[k].at)
            m   == Measured(idx)
            n   == Cardinality(m)
            st  == shown[k].stats
        IN  (n >= 2 /\ FiniteRtts(m)) =>
                /\ st.jitter # None
                /\ LET j == st.jitter[1].sqrt_of
                       D == SumSqDev(m, n, SumRtt(m))
                   IN  /\ Times(n * n * (n - 1), j) = D
                       /\ D.num > 0 => Times(n * n * n, j) # D

\* A query of the rtts 10, 20, 30: mean 20, jitter 10 (its square is 100).
C13_Witness ==
    /\ pc = "queried"
    /\ MeasuredRtts = << Ratio(10, 1), Ratio(20, 1), Ratio(30, 1) >>
    /\ Len(results) = 3
    /\ shown[3].stats.rtt_avg = Some([num |-> 20, den |-> 1])
    /\ shown[3].stats.jitter = Some([sqrt_of |-> [num |-> 100, den |-> 1]])

QueryPcs == {"stats_10s", "stats_1m", "stats_5m"}

\* C14: a get_stats_for_window call leaves the ledger and the running flag
\* as they were, and the same query made again on the state it leaves, at
\* the same clock value, gives the result it gave.
C14_QueryIsPure ==
    /\ [][(pc \in QueryPcs /\ pc' \in {"stats_1m", "stats_5m", "sleep"})
              => (results' = results /\ running' = running)]_vars
    /\ []((pc \in {"stats_1m", "stats_5m", "sleep"} /\ shown # << >>
              /\ shown[Len(shown)].at = now)
              => get_stats_for_window(results, shown[Len(shown)].window, now)
                     = shown[Len(shown)].stats)

\* A display is over whose 10 s query left out an entry that the ledger
\* still holds afterwards.
C14_Witness ==
    /\ pc = "sleep"
    /\ Len(shown) = 3
    /\ results # << >>
    /\ shown[1].stats.total_packets < Len(results)
    /\ shown[3].stats.total_packets = Len(results)

\* The outcomes a window of window_seconds counts at the clock value t.
Counted(window_seconds, t) ==
    LET w == window_results(results, window_seconds, t)
    IN  {w[i] : i \in 1..Len(w)}

\* C15: at one clock value the 10 s window counts a subset of what the 60 s
\* window counts, and that a subset of what the 300 s window counts; the
\* total_packets of the three results are ordered likewise.
C15_WindowsNested ==
    pc = "queried" =>
        /\ Counted(10, now) \subseteq Counted(60, now)
        /\ Counted(60, now) \subseteq Counted(300, now)
        /\ shown[1].stats.total_packets <= shown[2].stats.total_packets
        /\ shown[2].stats.total_packets <= shown[3].stats.total_packets

\* A query whose three windows hold three different numbers of outcomes.
C15_Witness ==
    /\ pc = "queried"
    /\ 0 < shown[1].stats.total_packets
    /\ shown[1].stats.total_packets < shown[2].stats.total_packets
    /\ shown[2].stats.total_packets < shown[3].stats.total_packets

\* success = false implies rtt absent.
FailedHasNoRtt(r) == ~r.success => r.rtt = None

\* C16: every outcome ping_once returns, and so every outcome handed to or
\* held in the ledger, has no rtt when its success flag is false.
C16_FailedOutcomeHasNoRtt ==
    /\ result # None => FailedHasNoRtt(result[1])
    /\ \A i \in 1..Len(appended) : FailedHasNoRtt(appended[i])
    /\ \A i \in 1..Len(results) : FailedHasNoRtt(results[i])

\* The ledger has taken an outcome with an rtt, a successful one without,
\* and a failed one.
C16_Witness ==
    /\ \E i \in 1..Len(appended) : appended[i].success /\ appended[i].rtt # None
    /\ \E i \in 1..Len(appended) : appended[i].success /\ appended[i].rtt = None
    /\ \E i \in 1..Len(appended) : ~appended[i].success
    /\ \E i \in 1..Len(results) : ~results[i].success

\* The outcomes ever appended that are inside the horizon at the clock value
\* the last add_result read, in append order.
AppendedInHorizon ==
    LET Fresh(r) == r.timestamp >= add_time - Horizon
    IN  SelectSeq(appended, Fresh)

\* C17: after each add_result the ledger is, in append order, exactly the
\* outcomes ever appended whose timestamp is within 300 s of the clock value
\* that call read, and the ledger is always in non-decreasing timestamp order.
C17_ExactlyExpiredPrefixEvicted ==
    /\ results = AppendedInHorizon
    /\ \A i \in 1..Len(appended) : \A j \in i..Len(appended) :
           appended[i].timestamp <= appended[j].timestamp
    /\ \A i \in 1..Len(results) : \A j \in i..Len(results) :
           results[i].timestamp <= results[j].timestamp

\* add_result has evicted an expired head and kept every later outcome.
C17_Witness ==
    /\ Len(appended) >= 2
    /\ appended[1].timestamp < add_time - Horizon
    /\ appended[2].timestamp >= add_time - Horizon
    /\ Len(results) = Len(appended) - 1

\* The windows of the queries of the display in progress or last made.
ShownWindows == [k \in 1..Len(shown) |-> shown[k].window]

\* C18: an iteration displays exactly when at least 1 s has passed since the
\* recorded time of the previous display, so two consecutive displays are at
\* least 1 s apart; a display queries the windows 10 s, 60 s and 300 s, in
\* that order, and no other.
C18_DisplayWhenDue ==
    /\ [][(pc = "check_display" /\ pc' \in {"stats_10s", "sleep"})
              => ((pc' = "stats_10s")
                      <=> (now - last_display_time
                               >= DisplayIntervalSeconds * MsPerSec))]_vars
    /\ [](displays >= 2 => gap >= DisplayIntervalSeconds * MsPerSec)
    /\ []((pc \in {"stats_1m", "stats_5m", "sleep"} /\ displays >= 1)
              => ShownWindows = SubSeq(<< 10, 60, 300 >>, 1, Len(shown)))
    /\ []((pc \in {"sleep", "loop", "ping"} /\ displays >= 1)
              => ShownWindows = << 10, 60, 300 >>)

\* A second display has been made, and a later iteration has skipped the
\* display because less than 1 s had passed.
C18_Witness ==
    /\ pc = "sleep"
    /\ displays >= 2
    /\ Len(shown) = 3
    /\ current_time - last_display_time > 0
    /\ current_time - last_display_time < DisplayIntervalSeconds * MsPerSec

\* The order of the steps of one loop iteration.
IterationOrder ==
    { << "loop", "ping" >>, << "ping", "subprocess" >>, << "subprocess", "add" >>,
      << "add", "check_display" >>, << "check_display", "stats_10s" >>,
      << "check_display", "sleep" >>, << "stats_10s", "stats_1m" >>,
      << "stats_1m", "stats_5m" >>, << "stats_5m", "sleep" >>,
      << "sleep", "loop" >> }

\* C19: an iteration probes, appends, displays if due, then sleeps; every
\* display comes after the append of its own iteration, and the first
\* iteration always displays.
C19_DisplayAfterAppend ==
    /\ [][(pc \in LoopPcs /\ pc' \in LoopPcs /\ pc' # pc)
              => << pc, pc' >> \in IterationOrder]_vars
    /\ [](displays >= 1 => appended # << >>)
    /\ [](pc \in QueryPcs => (nStarted >= 1 /\ Len(appended) = nStarted))
    /\ [](pc = "sleep" => displays >= 1)

\* The first display is about to query, after the first append.
C19_Witness ==
    /\ pc = "stats_10s"
    /\ displays = 1
    /\ nStarted = 1
    /\ Len(appended) = 1
    /\ results = appended

RttFieldsPresent(st) ==
    st.rtt_avg # None /\ st.rtt_min # None /\ st.rtt_max # None /\ st.jitter # None

\* The ledger holds an outcome with success = true and an rtt inside the
\* window of window_seconds ending at t.
HoldsMeasured(window_seconds, t) ==
    \E i \in InWindow(window_seconds, t) :
        results[i].success /\ results[i].rtt # None

\* The results in shown were computed from the ledger as it is now.
ShownIsCurrent ==
    \/ pc \in {"stats_1m", "stats_5m"}
    \/ pc = "sleep" /\ last_display_time = current_time /\ Len(shown) = 3

\* C20: in every result the four rtt fields are all present or all absent,
\* present exactly when the window holds a successful outcome with an rtt;
\* a present packet_loss lies in [0, 100] and is below 100 exactly when the
\* rtt fields are present.
C20_ConsistentShape ==
    ShownIsCurrent =>
        \A k \in 1..Len(shown) :
            LET st == shown[k].stats
            IN  /\ RttFieldsPresent(st) \/ RttFieldsAbsent(st)
                /\ RttFieldsPresent(st) <=> HoldsMeasured(shown[k].window, shown[k].at)
                /\ st.packet_loss # None =>
                       /\ 0 <= st.packet_loss[1].num
                       /\ st.packet_loss[1].num <= FullLoss * st.packet_loss[1].den
                       /\ (st.packet_loss[1].num < FullLoss * st.packet_loss[1].den)
                              <=> RttFieldsPresent(st)

\* One display showed an empty window, a window with rtt fields and a loss
\* strictly between 0 and 100, over a ledger that also holds a successful
\* outcome without an rtt.
C20_Witness ==
    /\ pc = "sleep"
    /\ last_display_time = current_time
    /\ Len(shown) = 3
    /\ shown[1].stats.packet_loss = None
    /\ RttFieldsPresent(shown[2].stats)
    /\ shown[2].stats.packet_loss[1].num > 0
    /\ \E i \in 1..Len(results) : results[i].success /\ results[i].rtt = None

====
